---- MODULE Spec2Model ----
(***************************************************************************)
(* Model of utils.py of pytorch-model-parallel: the class splitter, the    *)
(* single-process accuracy merger, and the two distributed helpers         *)
(* (sparse one-hot label builder, distributed accuracy merger) run by one  *)
(* process per rank around blocking all-gathers.                           *)
(*                                                                         *)
(* Tensors are sequences: a vector over the batch is a sequence indexed by *)
(* sample (1-based), a logits row is a sequence indexed by class (1-based  *)
(* position, 0-based class index = position - 1).  A fraction num/den is   *)
(* the record [num, den].  compute_batch_acc's tensors are drawn at the    *)
(* statement that first reads them; the distributed step's are fixed at    *)
(* its start.                                                              *)
(***************************************************************************)
EXTENDS Integers, Sequences, FiniteSets, TLC

\* ---------------------------------------------------------------- bounds
MaxClasses == 8
MaxGpus == 5
MaxStep == 20
MaxShards == 3
MaxWorld == 3

\* logit values and shard widths the inputs are drawn from
Scores == {0, 1, 2}
Widths == {1, 2}
\* logit values of the distributed merger, one label per participant
DistScores == {0, 1}

\* program constant: the model-parallel accuracy is computed every 10th step
AccInterval == 10

\* ---------------------------------------------------------------- state
VARIABLES
    \* get_class_split
    num_classes, num_gpus, split_i, split_list, split_pc,
    \* compute_batch_acc
    model_parallel, step, num_shards, acc_pc, shard_log, max_score, max_preds,
    base, preds, dense_out, labels, batch_size, batch_acc,
    \* one training step of world_size participants
    world_size, class_split, local_labels, outputs, program, pc, failed_in,
    in_labels, in_scores, in_preds, labels_all, label_tuple, scores, opreds,
    scores_gather, preds_gather, merged, dist_acc,
    \* torch.max's choice among equal maxima (fixed by the build)
    tie_first

splitVars == <<num_classes, num_gpus, split_i, split_list, split_pc>>
accVars == <<model_parallel, step, num_shards, acc_pc, shard_log, max_score,
             max_preds, base, preds, dense_out, labels, batch_size, batch_acc>>
distVars == <<world_size, class_split, local_labels, outputs, program, pc,
              failed_in, in_labels, in_scores, in_preds, labels_all, label_tuple,
              scores, opreds, scores_gather, preds_gather, merged, dist_acc>>
vars == <<splitVars, accVars, distVars, tie_first>>

\* ---------------------------------------------------------------- helpers
None == <<>>

RECURSIVE SumSeq(_)
SumSeq(s) == IF s = <<>> THEN 0 ELSE Head(s) + SumSeq(Tail(s))

\* the slice s[:n]
Prefix(s, n) == [k \in 1..(IF n < Len(s) THEN n ELSE Len(s)) |-> s[k]]

SeqMax(s) == CHOOSE m \in {s[k] : k \in 1..Len(s)} : \A k \in 1..Len(s) : s[k] <= m

\* positions holding the maximum
MaxPositions(s) == {k \in 1..Len(s) : s[k] = SeqMax(s)}

SetMin(S) == CHOOSE m \in S : \A x \in S : m <= x
SetMax(S) == CHOOSE m \in S : \A x \in S : x <= m

\* torch.max(..., dim)'s index (0-based): one of the maximal positions
ArgMax(s, first) == (IF first THEN SetMin(MaxPositions(s)) ELSE SetMax(MaxPositions(s))) - 1

\* number of samples whose prediction equals the label: torch.sum(preds == labels)
NumEqual(p, l) == Cardinality({k \in 1..Len(p) : p[k] = l[k]})

Rows(w) == [1..w -> Scores]

\* ---------------------------------------------------------------- get_class_split
ClassNumOffByOne(nc, ng, i) == (nc \div ng) + (IF i <= (nc % ng) THEN 1 ELSE 0)

\* the body of the loop: _class_num for gpu i
ClassNum(nc, ng, i) == (nc \div ng) + (IF i < (nc % ng) THEN 1 ELSE 0)

SplitInit ==
    /\ num_classes \in 1..MaxClasses
    /\ num_gpus \in 1..MaxGpus
    /\ split_i = 0
    /\ split_list = <<>>
    /\ split_pc = "loop"

SplitIter ==
    /\ split_pc = "loop"
    /\ split_i < num_gpus
    /\ split_list' = Append(split_list, ClassNum(num_classes, num_gpus, split_i))
    /\ split_i' = split_i + 1
    /\ UNCHANGED <<num_classes, num_gpus, split_pc>>

SplitReturn ==
    /\ split_pc = "loop"
    /\ split_i = num_gpus
    /\ split_pc' = "returned"
    /\ UNCHANGED <<num_classes, num_gpus, split_i, split_list>>

SplitIdle ==
    /\ num_classes = 0 /\ num_gpus = 0 /\ split_i = 0
    /\ split_list = <<>> /\ split_pc = "idle"

AccIdle ==
    /\ model_parallel = FALSE /\ step = 0 /\ num_shards = 0 /\ acc_pc = "idle"
    /\ shard_log = <<>> /\ max_score = None /\ max_preds = None /\ base = 0
    /\ preds = None /\ dense_out = <<>> /\ labels = <<>> /\ batch_size = 0
    /\ batch_acc = [num |-> 0, den |-> 1]

DistIdle ==
    /\ world_size = 0 /\ class_split = <<>> /\ local_labels = <<>>
    /\ outputs = <<>> /\ program = "idle" /\ pc = <<>> /\ failed_in = <<>>
    /\ in_labels = {} /\ in_scores = {} /\ in_preds = {} /\ labels_all = <<>>
    /\ label_tuple = <<>> /\ scores = <<>> /\ opreds = <<>>
    /\ scores_gather = <<>> /\ preds_gather = <<>> /\ merged = <<>>
    /\ dist_acc = <<>>

InitSplit == SplitInit /\ AccIdle /\ DistIdle /\ tie_first = TRUE

NextSplit ==
    \/ SplitIter /\ UNCHANGED <<accVars, distVars, tie_first>>
    \/ SplitReturn /\ UNCHANGED <<accVars, distVars, tie_first>>

SpecSplit == InitSplit /\ [][NextSplit]_vars

\* C1: get_class_split returns a list of length num_gpus that sums to
\* num_classes, every entry at least num_classes // num_gpus, and no two
\* entries more than 1 apart.
C1_ClassSplit ==
    split_pc = "returned" =>
        /\ Len(split_list) = num_gpus
        /\ SumSeq(split_list) = num_classes
        /\ \A k \in 1..Len(split_list) : split_list[k] >= num_classes \div num_gpus
        /\ \A j, k \in 1..Len(split_list) :
              split_list[j] - split_list[k] <= 1

C1_Witness ==
    /\ split_pc = "returned"
    /\ num_classes = 7 /\ num_gpus = 3
    /\ split_list = <<3, 2, 2>>
\* ---------------------------------------------------------------- compute_batch_acc
MergeRunsAtZero(st) == st % AccInterval = 0

MergeRunsEveryStep(st) == st > 0

\* line 95: the merge runs on this step
MergeRuns(st) == st > 0 /\ st % AccInterval = 0

CondNotStrict(score, best) == score >= best

\* line 107: cond = score > max_score (per sample)
Cond(score, best) == score > best

\* line 113: base += _split
NextBase(b, split) == b + split

\* the placeholder returned on the steps the merge is skipped on
Zero == [num |-> 0, den |-> 1]

AccInit ==
    /\ model_parallel \in BOOLEAN
    /\ step \in 0..MaxStep
    /\ num_shards \in 1..MaxShards
    \* two-sample batches are drawn for up to two shards
    /\ batch_size \in (IF num_shards <= 2 THEN {1, 2} ELSE {1})
    /\ acc_pc = "call"
    /\ shard_log = <<>>
    /\ max_score = None
    /\ max_preds = None
    /\ base = 0
    /\ preds = None
    /\ dense_out = <<>>
    /\ labels = <<>>
    /\ batch_acc = Zero

\* lines 94-96: model-parallel and the merge is skipped: return 0
AccPlaceholder ==
    /\ acc_pc = "call"
    /\ model_parallel
    /\ ~MergeRuns(step)
    /\ batch_acc' = Zero
    /\ acc_pc' = "returned"
    /\ UNCHANGED <<model_parallel, step, num_shards, shard_log, max_score,
                   max_preds, base, preds, dense_out, labels, batch_size>>

\* lines 97-100
AccBegin ==
    /\ acc_pc = "call"
    /\ model_parallel
    /\ MergeRuns(step)
    /\ max_score' = None
    /\ max_preds' = None
    /\ base' = 0
    /\ acc_pc' = "loop"
    /\ UNCHANGED <<model_parallel, step, num_shards, shard_log, preds,
                   dense_out, labels, batch_size, batch_acc>>

\* lines 101-113: one iteration over the next shard's logits
AccShard ==
    /\ acc_pc = "loop"
    /\ Len(shard_log) < num_shards
    /\ \E w \in Widths : \E logits \in [1..batch_size -> Rows(w)] :
          LET score == [k \in 1..batch_size |-> SeqMax(logits[k])]
              p == [k \in 1..batch_size |-> ArgMax(logits[k], tie_first)]
          IN  /\ IF max_score # None
                 THEN /\ max_preds' = [k \in 1..batch_size |->
                             IF Cond(score[k], max_score[k])
                             THEN p[k] + base ELSE max_preds[k]]
                      /\ max_score' = [k \in 1..batch_size |->
                             IF Cond(score[k], max_score[k])
                             THEN score[k] ELSE max_score[k]]
                 ELSE /\ max_score' = score
                      /\ max_preds' = p
              /\ base' = NextBase(base, w)
              /\ shard_log' = Append(shard_log,
                     [split |-> w, score |-> score, preds |-> p])
    /\ UNCHANGED <<model_parallel, step, num_shards, acc_pc, preds, dense_out,
                   labels, batch_size, batch_acc>>

\* lines 114-115, 120
AccMergeReturn ==
    /\ acc_pc = "loop"
    /\ Len(shard_log) = num_shards
    /\ \E lab \in [1..batch_size -> 0..(base - 1)] :
          /\ labels' = lab
          /\ preds' = max_preds
          /\ batch_acc' = [num |-> NumEqual(max_preds, lab), den |-> batch_size]
    /\ acc_pc' = "returned"
    /\ UNCHANGED <<model_parallel, step, num_shards, shard_log, max_score,
                   max_preds, base, dense_out, batch_size>>

\* lines 116-120: a single logits tensor
AccDense ==
    /\ acc_pc = "call"
    /\ ~model_parallel
    /\ \E w \in Widths : \E out \in [1..batch_size -> Rows(w)] :
       \E lab \in [1..batch_size -> 0..(w - 1)] :
          LET p == [k \in 1..batch_size |-> ArgMax(out[k], tie_first)]
          IN  /\ dense_out' = out
              /\ labels' = lab
              /\ preds' = p
              /\ batch_acc' = [num |-> NumEqual(p, lab), den |-> batch_size]
    /\ acc_pc' = "returned"
    /\ UNCHANGED <<model_parallel, step, num_shards, shard_log, max_score,
                   max_preds, base, batch_size>>

InitAcc == AccInit /\ SplitIdle /\ DistIdle /\ tie_first \in BOOLEAN

NextAcc ==
    \/ AccPlaceholder /\ UNCHANGED <<splitVars, distVars, tie_first>>
    \/ AccBegin /\ UNCHANGED <<splitVars, distVars, tie_first>>
    \/ AccShard /\ UNCHANGED <<splitVars, distVars, tie_first>>
    \/ AccMergeReturn /\ UNCHANGED <<splitVars, distVars, tie_first>>
    \/ AccDense /\ UNCHANGED <<splitVars, distVars, tie_first>>

SpecAcc == InitAcc /\ [][NextAcc]_vars

\* the merge ran to its end
Merged == acc_pc = "returned" /\ model_parallel /\ Len(shard_log) = num_shards

\* the highest local max score of sample k over all shards
BestScore(k) == SetMax({shard_log[j].score[k] : j \in 1..Len(shard_log)})

\* the first shard, in processing order, that reports the highest score
FirstBest(k) ==
    SetMin({j \in 1..Len(shard_log) : shard_log[j].score[k] = BestScore(k)})

\* sum of the class widths of the shards before shard j
OffsetBefore(j) == SumSeq([i \in 1..(j - 1) |-> shard_log[i].split])

\* C2: after the merge, every sample's prediction is the local arg-max of
\* the first shard (in processing order) holding the highest local max
\* score, plus the widths of all earlier shards; on equal scores the
\* earlier shard is retained.
C2_MergeFirstBest ==
    Merged =>
        \A k \in 1..batch_size :
            preds[k] = shard_log[FirstBest(k)].preds[k] + OffsetBefore(FirstBest(k))

C2_Witness ==
    /\ Merged
    /\ Len(shard_log) = 3
    /\ shard_log[1].score[1] < shard_log[2].score[1]
    /\ shard_log[2].score[1] = shard_log[3].score[1]
    /\ shard_log[1].split = 2
    /\ shard_log[2].preds[1] = 1
    /\ preds[1] = 3

\* C3: model-parallel on a step not divisible by 10 returns exactly 0 and
\* has read no logits and no labels.
C3_PlaceholderOffInterval ==
    (acc_pc = "returned" /\ model_parallel /\ step % AccInterval # 0) =>
        /\ batch_acc = Zero
        /\ shard_log = <<>>
        /\ labels = <<>>
        /\ preds = None

C3_Witness ==
    acc_pc = "returned" /\ model_parallel /\ step = 15 /\ batch_acc = Zero

\* C9: in model-parallel mode the merge runs exactly on the steps with
\* step > 0 and step % 10 = 0 (step 0 gets the placeholder 0); without
\* model parallelism the accuracy is computed from the logits and labels on
\* every step.
C9_MergeIffPositiveTenth ==
    /\ shard_log # <<>> => (model_parallel /\ step > 0 /\ step % AccInterval = 0)
    /\ (acc_pc = "returned" /\ model_parallel) =>
          /\ Merged <=> (step > 0 /\ step % AccInterval = 0)
          /\ ~Merged => (batch_acc = Zero /\ shard_log = <<>>)
          /\ Merged => batch_acc = [num |-> NumEqual(preds, labels), den |-> batch_size]
    /\ (acc_pc = "returned" /\ ~model_parallel) =>
          /\ preds = [k \in 1..batch_size |-> ArgMax(dense_out[k], tie_first)]
          /\ batch_acc = [num |-> NumEqual(preds, labels), den |-> batch_size]

C9_Witness ==
    acc_pc = "returned" /\ model_parallel /\ step = 0 /\ batch_acc = Zero /\ shard_log = <<>>
\* ---------------------------------------------------------------- one distributed step
\* Participant p has rank p - 1.  A participant that has invoked an
\* all-gather is in in_labels / in_scores / in_preds and stays blocked in
\* the call until every participant has invoked it.
Procs == 1..world_size
Rank(p) == p - 1

\* dist.all_gather: the list received by participant p, row k from rank k - 1
GatheredRankRelative(p, contrib) ==
    [k \in 1..world_size |-> contrib[((k - 1 + Rank(p)) % world_size) + 1]]

Gathered(p, contrib) == [k \in 1..world_size |-> contrib[k]]

RECURSIVE Cat(_, _)
\* torch.cat of the first n gathered vectors
Cat(list, n) == IF n = 0 THEN <<>> ELSE Cat(list, n - 1) \o list[n]

\* line 36
SparseConfigOK(p) == world_size = Len(class_split[p])

AccConfigUnchecked(p) == TRUE

AccConfigOKByRank(p) == Rank(p) < Len(class_split[p]) - 1

\* line 125
AccConfigOK(p) == world_size = Len(class_split[p])

RECURSIVE BuildSplits(_, _, _)
\* lines 38-49: splits_dict, built shard by shard from start_index
BuildSplits(cs, i, start_index) ==
    IF i > Len(cs) THEN <<>>
    ELSE <<[start_index |-> start_index,
            end_index |-> start_index + cs[i],
            num_splits |-> cs[i]]>>
         \o BuildSplits(cs, i + 1, start_index + cs[i])

SplitsDict(cs) == BuildSplits(cs, 1, 0)

\* lines 52-57: the first shard whose range holds the label (0: none)
ShardOf(label, sd, ws) ==
    LET hit == {j \in 1..ws : label >= sd[j].start_index /\ label < sd[j].end_index}
    IN  IF hit = {} THEN 0 ELSE SetMin(hit)

LocalColumnNoOffset(label, start_index) == label

\* line 54: the column inside the shard
LocalColumn(label, start_index) == label - start_index

RECURSIVE IndexList(_, _, _, _, _)
\* lines 51-57: the index_list of shard j after the first n labels
IndexList(labels_list, sd, ws, j, n) ==
    IF n = 0 THEN <<>>
    ELSE IndexList(labels_list, sd, ws, j, n - 1) \o
         (IF ShardOf(labels_list[n], sd, ws) = j
          THEN <<<<n - 1, LocalColumn(labels_list[n], sd[j].start_index)>>>>
          ELSE <<>>)

\* lines 59-72: the sparse tensor of shard i (0-based device i - 1)
SparseTensor(labels_list, sd, ws, i) ==
    LET index_list == IndexList(labels_list, sd, ws, i, Len(labels_list))
        nums == Len(index_list)
    IN  IF nums = 0
        THEN [size |-> <<Len(labels_list), sd[i].num_splits>>,
              indices |-> <<>>, values |-> <<>>, device |-> i - 1]
        ELSE [size |-> <<Len(labels_list), sd[i].num_splits>>,
              indices |-> index_list,
              values |-> [k \in 1..nums |-> 1], device |-> i - 1]

BaseOfInclusive(p) == SumSeq(Prefix(class_split[p], Rank(p) + 1))

\* line 126: base = sum(class_split[:opt.rank])
BaseOf(p) == SumSeq(Prefix(class_split[p], Rank(p)))

\* line 131: batch_size = labels.size(0), replacing the argument
\* (the caller passes its local batch size)
Denominator(p) == Len(labels_all[p])

\* the state before any participant has acted
DistStart(ws, cs, ll, out, prog) ==
    /\ world_size = ws
    /\ class_split = cs
    /\ local_labels = ll
    /\ outputs = out
    /\ program = prog
    /\ pc = [p \in 1..ws |-> IF prog = "acc_only" THEN "acc_call" ELSE "sparse_call"]
    /\ failed_in = [p \in 1..ws |-> "none"]
    /\ in_labels = {} /\ in_scores = {} /\ in_preds = {}
    /\ labels_all = [p \in 1..ws |->
                        IF prog = "acc_only" THEN Cat(ll, ws) ELSE <<>>]
    /\ label_tuple = [p \in 1..ws |-> <<>>]
    /\ scores = [p \in 1..ws |-> <<>>]
    /\ opreds = [p \in 1..ws |-> <<>>]
    /\ scores_gather = [p \in 1..ws |-> <<>>]
    /\ preds_gather = [p \in 1..ws |-> <<>>]
    /\ merged = [p \in 1..ws |-> <<>>]
    /\ dist_acc = [p \in 1..ws |-> None]

\* lines 30-31: participant p invokes the all-gather of labels
SparseCall(p) ==
    /\ pc[p] = "sparse_call"
    /\ in_labels' = in_labels \cup {p}
    /\ pc' = [pc EXCEPT ![p] = "gather_labels"]
    /\ UNCHANGED <<world_size, class_split, local_labels, outputs, program,
                   failed_in, in_scores, in_preds, labels_all, label_tuple,
                   scores, opreds, scores_gather, preds_gather, merged, dist_acc>>

\* lines 31-73: the all-gather completes; cat, assert, build, return
SparseBuild(p) ==
    /\ pc[p] = "gather_labels"
    /\ in_labels = Procs
    /\ LET lab == Cat(Gathered(p, local_labels), world_size)
           sd == SplitsDict(class_split[p])
       IN  IF SparseConfigOK(p)
           THEN /\ labels_all' = [labels_all EXCEPT ![p] = lab]
                /\ label_tuple' = [label_tuple EXCEPT ![p] =
                       [i \in 1..world_size |-> SparseTensor(lab, sd, world_size, i)]]
                /\ pc' = [pc EXCEPT ![p] = "acc_call"]
                /\ UNCHANGED failed_in
           ELSE /\ pc' = [pc EXCEPT ![p] = "failed"]
                /\ failed_in' = [failed_in EXCEPT ![p] = "sparse"]
                /\ UNCHANGED <<labels_all, label_tuple>>
    /\ UNCHANGED <<world_size, class_split, local_labels, outputs, program,
                   in_labels, in_scores, in_preds, scores, opreds,
                   scores_gather, preds_gather, merged, dist_acc>>

\* lines 125-135: assert, local max, offset, invoke the all-gather of scores
AccDistCall(p) ==
    /\ pc[p] = "acc_call"
    /\ IF AccConfigOK(p)
       THEN /\ scores' = [scores EXCEPT ![p] =
                   [k \in 1..Len(outputs[p]) |-> SeqMax(outputs[p][k])]]
            /\ opreds' = [opreds EXCEPT ![p] =
                   [k \in 1..Len(outputs[p]) |->
                       ArgMax(outputs[p][k], tie_first) + BaseOf(p)]]
            /\ in_scores' = in_scores \cup {p}
            /\ pc' = [pc EXCEPT ![p] = "gather_scores"]
            /\ UNCHANGED failed_in
       ELSE /\ pc' = [pc EXCEPT ![p] = "failed"]
            /\ failed_in' = [failed_in EXCEPT ![p] = "acc"]
            /\ UNCHANGED <<scores, opreds, in_scores>>
    /\ UNCHANGED <<world_size, class_split, local_labels, outputs, program,
                   in_labels, in_preds, labels_all, label_tuple,
                   scores_gather, preds_gather, merged, dist_acc>>

\* lines 135-137: the scores arrive; invoke the all-gather of predictions
AccDistGatherPreds(p) ==
    /\ pc[p] = "gather_scores"
    /\ in_scores = Procs
    /\ scores_gather' = [scores_gather EXCEPT ![p] = Gathered(p, scores)]
    /\ in_preds' = in_preds \cup {p}
    /\ pc' = [pc EXCEPT ![p] = "gather_preds"]
    /\ UNCHANGED <<world_size, class_split, local_labels, outputs, program,
                   failed_in, in_labels, in_scores, labels_all, label_tuple,
                   scores, opreds, preds_gather, merged, dist_acc>>

\* lines 137-147: the predictions arrive; stack, arg-max over the
\* participant axis, pick, compare with the labels
AccDistMerge(p) ==
    /\ pc[p] = "gather_preds"
    /\ in_preds = Procs
    /\ LET _preds == Gathered(p, opreds)
           _scores == scores_gather[p]
           n == Denominator(p)
           idx == [k \in 1..n |->
                      ArgMax([q \in 1..world_size |-> _scores[q][k]], tie_first)]
           picked == [k \in 1..n |-> _preds[idx[k] + 1][k]]
       IN  /\ preds_gather' = [preds_gather EXCEPT ![p] = _preds]
           /\ merged' = [merged EXCEPT ![p] = picked]
           /\ dist_acc' = [dist_acc EXCEPT ![p] =
                  [num |-> NumEqual(picked, labels_all[p]), den |-> n]]
    /\ pc' = [pc EXCEPT ![p] = "returned"]
    /\ UNCHANGED <<world_size, class_split, local_labels, outputs, program,
                   failed_in, in_labels, in_scores, in_preds, labels_all,
                   label_tuple, scores, opreds, scores_gather>>

ProcStep(p) ==
    \/ SparseCall(p)
    \/ SparseBuild(p)
    \/ AccDistCall(p)
    \/ AccDistGatherPreds(p)
    \/ AccDistMerge(p)

\* a step of participant p of this run
Participant(p) ==
    p \in Procs /\ ProcStep(p) /\ UNCHANGED <<splitVars, accVars, tie_first>>

NextDist ==
    \E p \in Procs : ProcStep(p) /\ UNCHANGED <<splitVars, accVars, tie_first>>

\* class splits of positive widths with 1..n shards
SplitsUpTo(n) == UNION {[1..m -> Widths] : m \in 1..n}

\* the logits participant p holds: one row per global sample, one column
\* per class of its shard
OutputsFor(ws, cs) ==
    {out \in [1..ws -> UNION {[1..ws -> [1..w -> DistScores]] : w \in Widths}] :
        \A p \in 1..ws :
            Len(out[p][1]) = (IF p <= Len(cs) THEN cs[p] ELSE 1)}

\* world sizes of the step whose data is unconstrained
DistWorlds == {1, 2}

\* every participant is handed the same class split; each holds one label,
\* any class index or the first index past the last class
InitDist ==
    /\ \E ws \in DistWorlds : \E cs \in SplitsUpTo(2) :
       \E ll \in [1..ws -> [1..1 -> 0..SumSeq(cs)]] :
       \E out \in OutputsFor(ws, cs) : \E prog \in {"step", "acc_only"} :
          DistStart(ws, [p \in 1..ws |-> cs], ll, out, prog)
    /\ tie_first \in BOOLEAN
    /\ SplitIdle /\ AccIdle

SpecDist == InitDist /\ [][NextDist]_vars

\* a class split of n shards of one class each
Ones(n) == [k \in 1..n |-> 1]

\* up to MaxWorld participants, each handed its own class split (of
\* world_size or world_size + 1 shards), all logits and labels zero
InitColl ==
    /\ \E ws \in 1..MaxWorld : \E cs \in [1..ws -> {Ones(ws), Ones(ws + 1)}] :
          DistStart(ws, cs, [p \in 1..ws |-> <<0>>],
                    [p \in 1..ws |-> [k \in 1..ws |-> <<0>>]], "step")
    /\ tie_first = TRUE
    /\ SplitIdle /\ AccIdle

SpecColl ==
    /\ InitColl
    /\ [][NextDist]_vars
    /\ \A p \in 1..MaxWorld : WF_vars(Participant(p))
\* ---------------------------------------------------------------- claims on the distributed step
\* class offset of participant (shard) q under the split cs
Off(cs, q) == SumSeq([i \in 1..(q - 1) |-> cs[i]])

\* C4: compute_batch_acc_dist called with len(class_split) # world_size
\* fails, and the failing participant has invoked no all-gather of scores
\* or predictions and computed no accuracy.
C4_AccAssertFirst ==
    \A p \in Procs :
        /\ failed_in[p] = "acc" =>
              /\ world_size # Len(class_split[p])
              /\ p \notin in_scores /\ p \notin in_preds
              /\ (program = "acc_only" => p \notin in_labels)
              /\ scores[p] = <<>> /\ dist_acc[p] = None
        /\ world_size # Len(class_split[p]) =>
              /\ pc[p] \in {"sparse_call", "gather_labels", "acc_call", "failed"}
              /\ p \notin in_scores /\ p \notin in_preds
              /\ dist_acc[p] = None

C4_Witness ==
    /\ program = "acc_only" /\ world_size = 2
    /\ Len(class_split[1]) = 1
    /\ failed_in[1] = "acc" /\ failed_in[2] = "acc"
    /\ in_scores = {}

\* C5: get_sparse_onehot_label_dist called with world_size #
\* len(class_split) fails before the participant has invoked any
\* collective, and returns no label tuple.
C5_SparseAssertFirst ==
    \A p \in Procs :
        failed_in[p] = "sparse" =>
            /\ p \notin in_labels
            /\ label_tuple[p] = <<>>

\* C6: the gathered labels are the participants' labels in rank order;
\* the builder returns one sparse matrix per shard of shape (global batch,
\* class_split[i]); with all labels in range every row has exactly one
\* entry over all shards, of value 1, in the shard whose class range holds
\* the label, at column label - offset; a shard no label falls into is
\* empty.
C6_SparseOneHot ==
    \A p \in Procs :
        label_tuple[p] # <<>> =>
            LET lab == labels_all[p]
                cs == class_split[p]
                lt == label_tuple[p]
                Entries == {ie \in (1..Len(lt)) \X (1..Len(lab)) :
                               ie[2] <= Len(lt[ie[1]].indices)}
                InRange(i, l) == Off(cs, i) <= l /\ l < Off(cs, i) + cs[i]
            IN  /\ lab = [k \in 1..world_size |-> local_labels[k][1]]
                /\ Len(lt) = Len(cs)
                /\ \A i \in 1..Len(lt) :
                      /\ lt[i].size = <<Len(lab), cs[i]>>
                      /\ Len(lt[i].values) = Len(lt[i].indices)
                      /\ Len(lt[i].indices) <= Len(lab)
                      /\ (\A r \in 1..Len(lab) : ~InRange(i, lab[r])) =>
                            (lt[i].indices = <<>> /\ lt[i].values = <<>>)
                /\ (\A r \in 1..Len(lab) : lab[r] \in 0..(SumSeq(cs) - 1)) =>
                      \A r \in 1..Len(lab) :
                          LET hits == {ie \in Entries :
                                          lt[ie[1]].indices[ie[2]][1] = r - 1}
                          IN  /\ Cardinality(hits) = 1
                              /\ \A ie \in hits :
                                    /\ InRange(ie[1], lab[r])
                                    /\ lt[ie[1]].indices[ie[2]][2] =
                                           lab[r] - Off(cs, ie[1])
                                    /\ lt[ie[1]].values[ie[2]] = 1

C6_Witness ==
    /\ world_size = 2
    /\ class_split[1] = <<1, 2>>
    /\ labels_all[1] = <<2, 1>>
    /\ label_tuple[1] # <<>>
    /\ label_tuple[1][1].indices = <<>>
    /\ label_tuple[1][1].size = <<2, 1>>
    /\ label_tuple[1][2].indices = <<<<0, 1>>, <<1, 0>>>>

\* the highest local max score of sample k over the participants
BestOf(k) == SetMax({SeqMax(outputs[q][k]) : q \in Procs})
Winners(k) == {q \in Procs : SeqMax(outputs[q][k]) = BestOf(k)}
\* the logits of sample k over all classes, shards in rank order
GlobalRow(k) == Cat([q \in Procs |-> outputs[q][k]], world_size)

\* C7: with len(class_split) = world_size the merged prediction of every
\* sample is the offset-adjusted local arg-max of a participant whose local
\* max score is the highest; if a single participant holds the highest
\* score it is a global arg-max class index; the accuracy is the fraction
\* of samples whose merged prediction equals the global label.
C7_DistMerge ==
    \A p \in Procs :
        pc[p] = "returned" =>
            /\ Len(merged[p]) = Len(labels_all[p])
            /\ \A k \in 1..Len(merged[p]) :
                  /\ \E q \in Winners(k) :
                        /\ merged[p][k] = opreds[q][k]
                        /\ merged[p][k] - Off(class_split[p], q) + 1
                               \in MaxPositions(outputs[q][k])
                  /\ Cardinality(Winners(k)) = 1 =>
                        /\ merged[p][k] + 1 \in MaxPositions(GlobalRow(k))
                        /\ (Cardinality(MaxPositions(GlobalRow(k))) = 1 =>
                               MaxPositions(GlobalRow(k)) = {merged[p][k] + 1})
            /\ dist_acc[p] =
                  [num |-> Cardinality({k \in 1..Len(merged[p]) :
                                           merged[p][k] = labels_all[p][k]}),
                   den |-> Len(labels_all[p])]

C7_Witness ==
    /\ world_size = 2
    /\ pc[1] = "returned"
    /\ class_split[1] = <<2, 2>>
    /\ outputs[1][1] = <<1, 0>> /\ outputs[2][1] = <<0, 1>>
    /\ outputs[1][2] = <<0, 0>> /\ outputs[2][2] = <<0, 1>>
    /\ merged[1] = IF tie_first THEN <<0, 3>> ELSE <<3, 3>>
    /\ labels_all[1] = <<0, 3>>
    /\ dist_acc[1].den = 2

\* C10: all participants hold the same stacked scores and predictions (row
\* k from rank k - 1), compute the same merged predictions and return the
\* same accuracy, whose denominator is the number of global labels and not
\* the batch_size argument.
C10_SameOnEveryRank ==
    \A p \in Procs :
        pc[p] = "returned" =>
            /\ scores_gather[p] = [k \in Procs |-> scores[k]]
            /\ preds_gather[p] = [k \in Procs |-> opreds[k]]
            /\ dist_acc[p].den = SumSeq([k \in Procs |-> Len(local_labels[k])])
            /\ \A q \in Procs :
                  pc[q] = "returned" =>
                      /\ scores_gather[q] = scores_gather[p]
                      /\ preds_gather[q] = preds_gather[p]
                      /\ merged[q] = merged[p]
                      /\ dist_acc[q] = dist_acc[p]

C10_Witness ==
    /\ world_size = 2
    /\ pc[1] = "returned" /\ pc[2] = "returned"
    /\ scores[1] = scores[2]
    /\ opreds[1] # opreds[2]
    /\ dist_acc[1] = [num |-> 1, den |-> 2]
    /\ dist_acc[2] = dist_acc[1]
    /\ Len(local_labels[1]) = 1

SameSplit == \A p, q \in Procs : class_split[p] = class_split[q]

\* every participant invokes the collectives in the order labels, scores,
\* predictions
SameOrder ==
    /\ in_preds \subseteq in_scores
    /\ in_scores \subseteq in_labels

\* nobody waits in an all-gather that a finished participant never joined
NoOrphan ==
    \A p, q \in Procs :
        pc[q] \in {"failed", "returned"} =>
            /\ pc[p] = "gather_labels" => q \in in_labels
            /\ pc[p] = "gather_scores" => q \in in_scores
            /\ pc[p] = "gather_preds" => q \in in_preds

AllReturned == \A p \in Procs : pc[p] = "returned"
AllFailed == \A p \in Procs : pc[p] = "failed"

====
